---- MODULE Spec2Model ----
(***************************************************************************)
(* Model of the case-resolution pipeline of the Indian Court Data Fetcher  *)
(* (src/app.py search, with the storage layout of src/models.py).          *)
(*                                                                         *)
(* Each request runs on its own worker with its own SQLAlchemy session.    *)
(* The committed database (ledger, cases, orders) is the only state the    *)
(* workers share; a worker's step is one stretch of search between two     *)
(* database interactions.  Rows a session has flushed but not committed    *)
(* are visible to that session only.                                       *)
(***************************************************************************)
EXTENDS Integers, Sequences, FiniteSets, TLC

\* ------------------------------------------------------------------ bounds
MaxRequests == 2        \* requests (workers) in one behaviour
MaxOrders == 2          \* longest document list a payload carries
MaxDownloads == 2       \* download_pdf requests in one behaviour
MaxWords == 3           \* longest exception text, in words
MaxApiCalls == 2        \* api_search requests in one behaviour

Procs == 1..MaxRequests

Downloaders == 1..MaxDownloads

\* ------------------------------------------------------------ value domains
\* A raw form field is a sequence of pieces: single characters for the case
\* number and the filing year, whole runs of text for the two names, " " for
\* white space.  Absent stands for a field the form does not carry.
Absent == << "<absent>" >>

Digits == {"0", "1", "2", "3", "4", "5", "6", "7", "8", "9"}

\* Characters str.isdigit() accepts and int() refuses; "^2" stands for the
\* superscript two, U+00B2.
Superscripts == { "^2" }

\* datetime.now().year
CurrentYear == 2024

CaseTypeInputs ==
    { <<" ", "Civil Appeal", " ">>, <<>>, <<"Tax Appeal">> }

CaseNumberInputs ==
    { <<"1", "0", "1">>,
      <<"1", "2", "3", "4", "5", "6", "7", "8", "9", "0">>,
      <<" ">>,
      <<"1", "2", "a">>,
      <<"1", "2", "3", "4", "5", "6", "7", "8", "9", "0", "1">>,
      <<"1", "2", "a", "4", "5", "6", "7", "8", "9", "0", "1">> }

FilingYearInputs ==
    { <<"2", "0", "2", "4">>,
      <<" ", "1", "9", "4", "7">>,
      <<>>,
      <<"1", "9", "4", "6">>,
      <<"1", "9", "0", "0">>,
      <<"2", "0", "2", "5">>,
      <<"2", "0", "x", "4">> }

CourtNameInputs ==
    { <<"Delhi High Court">>, Absent, <<" ">> }

\* The forms a request can submit.  The short case number comes with the
\* current year and the ten-digit one with 1947, so that the forms that pass
\* validation name two cases.
Forms ==
    { f \in [ case_type : CaseTypeInputs, case_number : CaseNumberInputs,
              filing_year : FilingYearInputs, court_name : CourtNameInputs ] :
        /\ ~(f.case_number = <<"1", "0", "1">> /\ f.filing_year = <<" ", "1", "9", "4", "7">>)
        /\ ~(Len(f.case_number) = 10 /\ f.filing_year = <<"2", "0", "2", "4">>) }

NoForm ==
    [ case_type |-> Absent, case_number |-> Absent, filing_year |-> Absent,
      court_name |-> Absent ]

\* Validated fingerprints (case_type, case_number, filing_year, court_name).
Fingerprints ==
    { <<"Civil Appeal", "101", 2024, "Delhi High Court">>,
      <<"Civil Appeal", "1234567890", 1947, "Delhi High Court">> }

NoFingerprint == <<"", "", 0, "">>

Terminal == {"cache_hit", "success", "no_data", "failed"}

\* A document descriptor of the payload, by what the loop of search does with
\* it: a mapping or not, its 'date' entry and its 'url' entry ("" for none).
\* The dated descriptor carries a link, the one with the unparsable date
\* carries none.
Descriptors ==
    { [shape |-> "dict", date |-> "valid", url |-> "/orders/1.pdf"],
      [shape |-> "dict", date |-> "invalid", url |-> ""],
      [shape |-> "dict", date |-> "absent", url |-> "/orders/1.pdf"],
      [shape |-> "other", date |-> "absent", url |-> ""] }

RECURSIVE SeqsUpTo(_, _)
SeqsUpTo(S, n) ==
    IF n = 0 THEN { <<>> }
    ELSE LET shorter == SeqsUpTo(S, n - 1)
         IN  shorter \cup { Append(s, x) : s \in { t \in shorter : Len(t) = n - 1 }, x \in S }

\* The payloads a source adapter can hand to search: 'raw_html' present as
\* text, or present as None; 'orders' a list of descriptors.
Payloads ==
    { [raw_html |-> "text", orders |-> os] : os \in SeqsUpTo(Descriptors, MaxOrders) }
    \cup { [raw_html |-> "null", orders |-> <<>>] }

NoPayload == [raw_html |-> "none", orders |-> <<>>]

\* Exceptions a source adapter can raise, by their text.
AdapterErrors == {"connection reset by peer", "lookup failed"}

\* What the model client does when the summarizer is called.
ModelOutcomes == {"absent", "raises", "empty", "text"}

NoResponse == [kind |-> "none", case_id |-> 0, summary |-> "", msg |-> ""]

\* A download_pdf request before it starts; doc is <<case_id, idx>>.
IdleDownload ==
    [ pc |-> "idle", doc |-> <<0, 0>>, cached |-> FALSE, status |-> 0,
      msg |-> "", file |-> "" ]

\* A CourtCase object whose parsed_data was never set; d is the mapping a
\* caller is about to store, as a set of <<key, value>> pairs.
NoParsed == [ pc |-> "new", d |-> {}, column |-> <<"NULL">>, loaded |-> {} ]

\* No exception has reached the handler; text is str(e) as a sequence of
\* words.
NoPage == [ pc |-> "none", text |-> <<>>, msg |-> "" ]

\* An api_search request before it starts.
IdleWeb ==
    [ pc |-> "idle", fp |-> NoFingerprint, status |-> 0, msg |-> "",
      summary |-> "", scrapeCalls |-> 0, sumCalls |-> 0,
      served |-> 0, prev |-> <<NoFingerprint, 0, 0>> ]

IdleRequest ==
    [ pc |-> "idle", form |-> NoForm, errors |-> <<>>,
      fp |-> NoFingerprint, qid |-> 0, existing |-> 0,
      fetched |-> "none", payload |-> NoPayload, model |-> "", summary |-> "",
      sessOK |-> TRUE, newCase |-> 0, pendOrders |-> <<>>, exc |-> "",
      scrapeCalls |-> 0, sumCalls |-> 0, resp |-> NoResponse ]

VARIABLES
    ledger,       \* search_queries: committed SearchQuery rows, row id = index
    cases,        \* court_cases: committed CourtCase rows
    orders,       \* case_orders: committed CaseOrder rows
    nextCaseId,   \* next primary key of court_cases
    req,          \* per worker: position in search, locals and session
    overlapped,   \* history: a request began while another one for the same
                  \* fingerprint was in flight
    client,       \* summarizer.client is set (FALSE: None, no GROQ_API_KEY)
    dl,           \* per download_pdf request: position, document and response
    web,          \* per api_search request: its response
    parsed,       \* a CourtCase object's parsed_data column and what was read from it
    page          \* an exception reaching the handler of search and the message shown

vars ==
    <<ledger, cases, orders, nextCaseId, req, overlapped, client, dl, web, parsed, page>>

\* ---------------------------------------------------------------- validation
\* request.form.get(name, default)
FormGet(v, default) == IF v = Absent THEN default ELSE v

RECURSIVE StripLeft(_)
StripLeft(s) == IF s # <<>> /\ Head(s) = " " THEN StripLeft(Tail(s)) ELSE s

RECURSIVE StripRight(_)
StripRight(s) ==
    IF s # <<>> /\ s[Len(s)] = " " THEN StripRight(SubSeq(s, 1, Len(s) - 1)) ELSE s

\* str.strip()
Strip(s) == StripRight(StripLeft(s))

\* The string a sequence of pieces spells.
RECURSIVE Join(_)
Join(s) == IF s = <<>> THEN "" ELSE Head(s) \o Join(Tail(s))

\* str.isdigit(): not empty and digit characters only.
IsDigit(s) == s # <<>> /\ \A i \in 1..Len(s) : s[i] \in Digits \cup Superscripts

\* int(s) does not raise ValueError, for a stripped string.
IntParses(s) == s # <<>> /\ \A i \in 1..Len(s) : s[i] \in Digits

DigitValue(c) ==
    CASE c = "0" -> 0 [] c = "1" -> 1 [] c = "2" -> 2 [] c = "3" -> 3
      [] c = "4" -> 4 [] c = "5" -> 5 [] c = "6" -> 6 [] c = "7" -> 7
      [] c = "8" -> 8 [] c = "9" -> 9

\* int(s) of a digit string.
RECURSIVE IntOf(_)
IntOf(s) ==
    IF s = <<>> THEN 0
    ELSE 10 * IntOf(SubSeq(s, 1, Len(s) - 1)) + DigitValue(s[Len(s)])

\* get_court_types()
CourtTypes ==
    { "Civil Appeal", "Criminal Appeal", "Writ Petition", "Civil Writ Petition",
      "Criminal Writ Petition", "Civil Suit", "Criminal Case", "Matrimonial",
      "Company Petition", "Arbitration", "Execution", "Misc. Application",
      "Review Petition", "Special Leave Petition", "Contempt Petition" }

\* The four stripped fields of a form.
Fields(form) ==
    [ case_type |-> Strip(FormGet(form.case_type, <<>>)),
      case_number |-> Strip(FormGet(form.case_number, <<>>)),
      filing_year |-> Strip(FormGet(form.filing_year, <<>>)),
      court_name |-> Strip(FormGet(form.court_name, <<"Delhi High Court">>)) ]

CaseTypeErrors(t) ==
    IF t = <<>> THEN <<"Case Type is required">>
    ELSE IF Join(t) \notin CourtTypes THEN <<"Invalid Case Type selected">>
    ELSE <<>>

\* Faulty variant of CaseNumberErrors: the length is not checked.
CaseNumberErrorsAnyLength(n) ==
    IF n = <<>> THEN <<"Case Number is required">>
    ELSE IF ~IsDigit(n)
    THEN <<"Case Number must contain only numbers (e.g., 123)">>
    ELSE <<>>

CaseNumberErrors(n) ==
    IF n = <<>> THEN <<"Case Number is required">>
    ELSE IF ~IsDigit(n)
    THEN <<"Case Number must contain only numbers (e.g., 123)">>
    ELSE IF Len(n) > 10 THEN <<"Case Number is too long (maximum 10 digits)">>
    ELSE IF Len(n) < 1 THEN <<"Case Number cannot be empty">>
    ELSE <<>>

\* int(filing_year) raises ValueError on a string that is not a number.
FilingYearErrors(y) ==
    IF y = <<>> THEN <<"Filing Year is required">>
    ELSE IF ~IntParses(y) THEN <<"Filing Year must be a valid number">>
    ELSE IF IntOf(y) < 1947 THEN <<"Filing Year cannot be before 1947">>
    ELSE IF IntOf(y) > CurrentYear
    THEN <<"Filing Year cannot be in the future (current year: "
             \o ToString(CurrentYear) \o ")">>
    ELSE <<>>

CourtNameErrors(c) ==
    IF c = <<>> THEN <<"Court Name is required">> ELSE <<>>

\* validation_errors, in the order search appends to it.
ValidationErrors(form) ==
    LET f == Fields(form)
    IN  CaseTypeErrors(f.case_type) \o CaseNumberErrors(f.case_number)
          \o FilingYearErrors(f.filing_year) \o CourtNameErrors(f.court_name)

\* "Please fix the following errors:" and the bulleted messages.
RECURSIVE Bulleted(_)
Bulleted(errs) ==
    IF errs = <<>> THEN "" ELSE "\n* " \o Head(errs) \o Bulleted(Tail(errs))

ErrorList(errs) == "Please fix the following errors:" \o Bulleted(errs)

\* Faulty variant of FingerprintOf: the case type is taken as it was typed.
FingerprintOfUntrimmed(form) ==
    LET f == Fields(form)
    IN  << Join(FormGet(form.case_type, <<>>)), Join(f.case_number),
           IntOf(f.filing_year), Join(f.court_name) >>

\* The fingerprint search works with once validation has passed:
\* filing_year = int(filing_year).
FingerprintOf(form) ==
    LET f == Fields(form)
    IN  << Join(f.case_type), Join(f.case_number), IntOf(f.filing_year),
           Join(f.court_name) >>

InFlight(p) == req[p].pc \notin {"idle", "done"}

\* ------------------------------------------------------- storage operators
\* Faulty variant of FindCase: the filter compares case_number with the case type.
FindCaseMixedUp(fp) == { c \in cases : c.fp[2] = fp[1] }

\* CourtCase.query.filter_by(case_type, case_number, filing_year, court_name):
\* the committed rows with exactly this fingerprint.
FindCase(fp) == { c \in cases : c.fp = fp }

\* court_cases.raw_response is NOT NULL: the INSERT of the flush is refused
\* when the payload carries 'raw_html' as None.
FlushFails(payload) == payload.raw_html = "null"

\* The order_date the loop gives a descriptor: the parsed date, today's date
\* when strptime raises, and nothing when 'date' is missing or empty.
OrderDate(d) ==
    CASE d.date = "valid" -> "parsed"
      [] d.date = "invalid" -> "today"
      [] OTHER -> "null"

\* is_latest = len(scraped_data.get('orders', [])) == 1
IsLatest(os) == Len(os) = 1

\* How many descriptors the loop handles before order_data.get raises on one
\* that is not a mapping (all of them when none is).
LoopPrefix(os) ==
    LET bad == { i \in 1..Len(os) : os[i].shape # "dict" }
    IN  IF bad = {} THEN Len(os)
        ELSE (CHOOSE i \in bad : \A j \in bad : i <= j) - 1

\* The CaseOrder objects the loop has added to the session.
PendingOrders(cid, os) ==
    [ i \in 1..LoopPrefix(os) |->
        [ case_id |-> cid, idx |-> i, order_date |-> OrderDate(os[i]),
          is_latest |-> IsLatest(os), pdf_url |-> os[i].url,
          pdf_downloaded |-> FALSE, local_pdf_path |-> "", pdf_filename |-> "" ] ]

\* case_orders.order_date is NOT NULL: the flush inside commit is refused when
\* a pending order has no date.
CommitFails(pend) == \E i \in 1..Len(pend) : pend[i].order_date = "null"

Range(s) == { s[i] : i \in 1..Len(s) }

\* What a call of the summarizer can meet: no client at all, or a client whose
\* invoke raises, returns empty content or returns text.
CallOutcomes(hasClient) ==
    IF hasClient THEN ModelOutcomes \ {"absent"} ELSE {"absent"}

\* _fallback_summary: the rule-based text from the fields of the case data; a
\* last document descriptor that is not a mapping makes .get raise, and the
\* except branch returns the fixed apology.
FallbackSummary(fp, payload) ==
    LET os == payload.orders
    IN  IF os # <<>> /\ os[Len(os)].shape # "dict"
        THEN "Unable to generate summary for the provided court data."
        ELSE "Case Summary for " \o fp[2] \o ": heard in " \o fp[4] \o "."
               \o (IF os # <<>> THEN " Latest order: No recent orders" ELSE "")

\* _fallback_summary_text
FallbackSummaryText ==
    "Summary: Court case information has been processed and retrieved from the legal database."

\* Faulty variant of SummaryOf: a raising model call is not caught.
SummaryOfUncaught(outcome, fp, payload) ==
    CASE outcome = "absent" -> FallbackSummary(fp, payload)
      [] outcome = "raises" -> ""
      [] outcome = "empty" -> FallbackSummaryText
      [] OTHER -> "model summary"

\* Faulty variant of SummaryOf: an empty model response is returned as it is.
SummaryOfEmptyKept(outcome, fp, payload) ==
    CASE outcome = "absent" -> FallbackSummary(fp, payload)
      [] outcome = "raises" -> FallbackSummaryText
      [] outcome = "empty" -> ""
      [] OTHER -> "model summary"

\* summarize_court_data: the rule-based fallback without a client; with one,
\* _generate_summary_langchain returns the default text when invoke raises or
\* returns nothing, else the model's text.
SummaryOf(outcome, fp, payload) ==
    CASE outcome = "absent" -> FallbackSummary(fp, payload)
      [] outcome = "raises" -> FallbackSummaryText
      [] outcome = "empty" -> FallbackSummaryText
      [] OTHER -> "model summary"

\* word in str(e).lower(), over the exception texts of the model.
Mentions(e, word) ==
    <<e, word>> \in { <<"connection reset by peer", "connection">> }

\* The message of the error page, from the text of the exception.
ErrorMessage(e) ==
    IF Mentions(e, "connection")
    THEN "Unable to connect to court website. Please try again later."
    ELSE IF Mentions(e, "timeout")
    THEN "Request timed out. The court website may be busy. Please try again."
    ELSE IF Mentions(e, "database")
    THEN "Database error occurred. Please try again."
    ELSE "An unexpected error occurred while processing your request."

ErrorResponse(e) ==
    [kind |-> "error", case_id |-> 0, summary |-> "", msg |-> ErrorMessage(e)]

\* The four completions of a SearchQuery row.
CompleteCacheHit(row, cid) ==
    [row EXCEPT !.status = "cache_hit", !.case_id = cid, !.rt = TRUE]

\* Faulty variant of CompleteNoData: the explanatory error text is not recorded.
CompleteNoDataSilent(row) ==
    [row EXCEPT !.status = "no_data", !.rt = TRUE]

CompleteNoData(row) ==
    [row EXCEPT !.status = "no_data", !.rt = TRUE,
                !.err = "No data found for the given case details"]

\* Faulty variant of CompleteSuccess: the new case id is not linked.
CompleteSuccessUnlinked(row, cid) ==
    [row EXCEPT !.status = "success", !.rt = TRUE]

CompleteSuccess(row, cid) ==
    [row EXCEPT !.status = "success", !.case_id = cid, !.rt = TRUE]

\* Faulty variant of CompleteFailed: the response time is not recorded.
CompleteFailedUntimed(row, e) ==
    [row EXCEPT !.status = "failed", !.err = e]

CompleteFailed(row, e) ==
    [row EXCEPT !.status = "failed", !.err = e, !.rt = TRUE]

\* The CourtCase row search builds for request record r.
NewCaseRow(r) ==
    [ id |-> r.newCase, fp |-> r.fp, ai_summary |-> r.summary,
      parsed_orders |-> Len(r.payload.orders), by |-> r.qid ]

Set(p, r) == req' = [req EXCEPT ![p] = r]

\* --------------------------------------------------------------------- Init
Init ==
    /\ ledger = <<>>
    /\ cases = {}
    /\ orders = {}
    /\ nextCaseId = 1
    /\ req = [p \in Procs |-> IdleRequest]
    /\ overlapped = FALSE
    /\ client \in BOOLEAN
    /\ dl = [d \in Downloaders |-> IdleDownload]
    /\ web = IdleWeb
    /\ parsed = NoParsed
    /\ page = NoPage

\* ------------------------------------------------------------------ actions
\* Faulty variant of Reject: the rejected request is logged as a failed attempt.
RejectLogged(p) ==
    /\ req[p].pc = "idle"
    /\ \A q \in Procs : q < p => req[q].pc # "idle"
    /\ \E form \in Forms :
         LET errs == ValidationErrors(form)
         IN  /\ errs # <<>>
             /\ Set(p, [req[p] EXCEPT !.pc = "done", !.form = form,
                          !.errors = errs,
                          !.resp = [NoResponse EXCEPT !.kind = "validation",
                                      !.msg = ErrorList(errs)]])
    /\ ledger' = Append(ledger, [fp |-> NoFingerprint, status |-> "failed",
                                 case_id |-> 0, err |-> "validation", rt |-> TRUE])
    /\ UNCHANGED <<cases, orders, nextCaseId, overlapped, client, dl, web, parsed, page>>

\* search, validation failed: the form is rendered again with the messages;
\* no SearchQuery is created.
Reject(p) ==
    /\ req[p].pc = "idle"
    /\ \A q \in Procs : q < p => req[q].pc # "idle"
    /\ \E form \in Forms :
         LET errs == ValidationErrors(form)
         IN  /\ errs # <<>>
             /\ Set(p, [req[p] EXCEPT !.pc = "done", !.form = form,
                          !.errors = errs,
                          !.resp = [NoResponse EXCEPT !.kind = "validation",
                                      !.msg = ErrorList(errs)]])
    /\ UNCHANGED <<ledger, cases, orders, nextCaseId, overlapped, client, dl, web, parsed, page>>

\* Faulty variant of Begin: the SearchQuery is added to the session but not
\* committed before the lookup.
BeginUncommitted(p) ==
    /\ req[p].pc = "idle"
    /\ \A q \in Procs : q < p => req[q].pc # "idle"
    /\ \E fp \in Fingerprints :
         Set(p, [req[p] EXCEPT !.pc = "lookup", !.fp = fp, !.qid = Len(ledger) + 1])
    /\ UNCHANGED <<ledger, cases, orders, nextCaseId, overlapped, client, dl, web, parsed, page>>

\* search, validation passed: the SearchQuery is added in_progress and
\* committed.
Begin(p) ==
    /\ req[p].pc = "idle"
    /\ \A q \in Procs : q < p => req[q].pc # "idle"
    /\ \E fp \in { FingerprintOf(form) : form \in { f \in Forms : ValidationErrors(f) = <<>> } } :
         /\ ledger' = Append(ledger, [fp |-> fp, status |-> "in_progress",
                                      case_id |-> 0, err |-> "", rt |-> FALSE])
         /\ Set(p, [req[p] EXCEPT !.pc = "lookup", !.fp = fp,
                      !.qid = Len(ledger) + 1])
         /\ overlapped' = (overlapped \/ \E q \in Procs \ {p} :
                                           InFlight(q) /\ req[q].fp = fp)
    /\ UNCHANGED <<cases, orders, nextCaseId, client, dl, web, parsed, page>>

\* Faulty variant of Lookup: the cache-hit branch does not return and the request goes
\* on to the source adapter.
LookupFallsThrough(p) ==
    /\ req[p].pc = "lookup"
    /\ IF FindCase(req[p].fp) = {}
       THEN Set(p, [req[p] EXCEPT !.pc = "scrape", !.existing = 0])
       ELSE \E c \in FindCase(req[p].fp) :
              Set(p, [req[p] EXCEPT !.pc = "scrape", !.existing = c.id])
    /\ UNCHANGED <<ledger, cases, orders, nextCaseId, overlapped, client, dl, web, parsed, page>>

\* existing_case = CourtCase.query.filter_by(...).first()
Lookup(p) ==
    /\ req[p].pc = "lookup"
    /\ IF FindCase(req[p].fp) = {}
       THEN Set(p, [req[p] EXCEPT !.pc = "scrape", !.existing = 0])
       ELSE \E c \in FindCase(req[p].fp) :
              Set(p, [req[p] EXCEPT !.pc = "hit", !.existing = c.id])
    /\ UNCHANGED <<ledger, cases, orders, nextCaseId, overlapped, client, dl, web, parsed, page>>

\* Faulty variant of CacheHit: the page shows a newly generated summary, not the
\* stored one.
CacheHitResummarize(p) ==
    /\ req[p].pc = "hit"
    /\ ledger' = [ledger EXCEPT ![req[p].qid] = CompleteCacheHit(@, req[p].existing)]
    /\ Set(p, [req[p] EXCEPT !.pc = "render",
                 !.resp = [kind |-> "cache_hit", case_id |-> req[p].existing,
                           summary |-> FallbackSummaryText, msg |-> ""]])
    /\ UNCHANGED <<cases, orders, nextCaseId, overlapped, client, dl, web, parsed, page>>

\* Faulty variant of CacheHit: the stored case is refreshed on a cache hit.
CacheHitRefreshes(p) ==
    /\ req[p].pc = "hit"
    /\ ledger' = [ledger EXCEPT ![req[p].qid] = CompleteCacheHit(@, req[p].existing)]
    /\ LET c == CHOOSE c \in cases : c.id = req[p].existing
       IN  /\ cases' = (cases \ {c}) \cup { [c EXCEPT !.ai_summary = "refreshed"] }
           /\ Set(p, [req[p] EXCEPT !.pc = "render",
                        !.resp = [kind |-> "cache_hit", case_id |-> c.id,
                                  summary |-> c.ai_summary, msg |-> ""]])
    /\ UNCHANGED <<orders, nextCaseId, overlapped, client, dl, web, parsed, page>>

\* if existing_case: the attempt is completed cache_hit and committed; the
\* result page gets the stored case and its stored summary.
CacheHit(p) ==
    /\ req[p].pc = "hit"
    /\ ledger' = [ledger EXCEPT ![req[p].qid] = CompleteCacheHit(@, req[p].existing)]
    /\ LET c == CHOOSE c \in cases : c.id = req[p].existing
       IN  Set(p, [req[p] EXCEPT !.pc = "render",
                     !.resp = [kind |-> "cache_hit", case_id |-> c.id,
                               summary |-> c.ai_summary, msg |-> ""]])
    /\ UNCHANGED <<cases, orders, nextCaseId, overlapped, client, dl, web, parsed, page>>

\* Faulty variant of Scrape: a raising adapter is called once more.
ScrapeRetries(p) ==
    /\ req[p].pc = "scrape"
    /\ \/ /\ \E e \in AdapterErrors :
               Set(p, [req[p] EXCEPT
                         !.pc = IF req[p].scrapeCalls = 0 THEN "scrape" ELSE "except",
                         !.fetched = "raised", !.exc = e, !.scrapeCalls = @ + 1])
          /\ UNCHANGED ledger
       \/ /\ ledger' = [ledger EXCEPT ![req[p].qid] = CompleteNoData(@)]
          /\ Set(p, [req[p] EXCEPT !.pc = "render", !.fetched = "notfound",
                       !.scrapeCalls = @ + 1,
                       !.resp = [NoResponse EXCEPT !.kind = "no_data",
                                   !.msg = "No case found with the provided details. Please verify the case information."]])
       \/ /\ \E d \in Payloads :
               Set(p, [req[p] EXCEPT !.pc = "summarize", !.fetched = "data",
                         !.payload = d, !.scrapeCalls = @ + 1])
          /\ UNCHANGED ledger
    /\ UNCHANGED <<cases, orders, nextCaseId, overlapped, client, dl, web, parsed, page>>

\* scraped_data = scraper.scrape_case_data(...): the adapter raises, returns
\* nothing (the attempt is completed no_data and committed), or returns a
\* payload.
Scrape(p) ==
    /\ req[p].pc = "scrape"
    /\ \/ /\ \E e \in AdapterErrors :
               Set(p, [req[p] EXCEPT !.pc = "except", !.fetched = "raised",
                         !.exc = e, !.scrapeCalls = @ + 1])
          /\ UNCHANGED ledger
       \/ /\ ledger' = [ledger EXCEPT ![req[p].qid] = CompleteNoData(@)]
          /\ Set(p, [req[p] EXCEPT !.pc = "render", !.fetched = "notfound",
                       !.scrapeCalls = @ + 1,
                       !.resp = [NoResponse EXCEPT !.kind = "no_data",
                                   !.msg = "No case found with the provided details. Please verify the case information."]])
       \/ /\ \E d \in Payloads :
               Set(p, [req[p] EXCEPT !.pc = "summarize", !.fetched = "data",
                         !.payload = d, !.scrapeCalls = @ + 1])
          /\ UNCHANGED ledger
    /\ UNCHANGED <<cases, orders, nextCaseId, overlapped, client, dl, web, parsed, page>>

\* Faulty variant of Summarize: the summary carries a stamp of the request.
SummarizeStamped(p) ==
    /\ req[p].pc = "summarize"
    /\ \E o \in CallOutcomes(client) :
         Set(p, [req[p] EXCEPT !.pc = "save", !.model = o,
                   !.summary = SummaryOf(o, req[p].fp, req[p].payload)
                                 \o " #" \o ToString(req[p].qid),
                   !.sumCalls = @ + 1])
    /\ UNCHANGED <<ledger, cases, orders, nextCaseId, overlapped, client, dl, web, parsed, page>>

\* summary = summarizer.summarize_court_data(scraped_data)
Summarize(p) ==
    /\ req[p].pc = "summarize"
    /\ \E o \in CallOutcomes(client) :
         Set(p, [req[p] EXCEPT !.pc = "save", !.model = o,
                   !.summary = SummaryOf(o, req[p].fp, req[p].payload),
                   !.sumCalls = @ + 1])
    /\ UNCHANGED <<ledger, cases, orders, nextCaseId, overlapped, client, dl, web, parsed, page>>

\* Faulty variant of AddCase: the store is looked up again before the insert, and a
\* case committed meanwhile turns the request into a cache hit.
AddCaseRecheck(p) ==
    /\ req[p].pc = "save"
    /\ IF FindCase(req[p].fp) # {}
       THEN /\ \E c \in FindCase(req[p].fp) :
                 Set(p, [req[p] EXCEPT !.pc = "hit", !.existing = c.id, !.model = ""])
            /\ UNCHANGED nextCaseId
       ELSE IF FlushFails(req[p].payload)
       THEN /\ Set(p, [req[p] EXCEPT !.pc = "except", !.sessOK = FALSE,
                         !.model = "", !.exc = "IntegrityError"])
            /\ UNCHANGED nextCaseId
       ELSE /\ Set(p, [req[p] EXCEPT !.pc = "orders", !.model = "",
                         !.newCase = nextCaseId])
            /\ nextCaseId' = nextCaseId + 1
    /\ UNCHANGED <<ledger, cases, orders, overlapped, client, dl, web, parsed, page>>

\* new_case = CourtCase(...); db.session.add(new_case); db.session.flush().
\* A refused flush rolls the transaction back and leaves the session inactive.
AddCase(p) ==
    /\ req[p].pc = "save"
    /\ IF FlushFails(req[p].payload)
       THEN /\ Set(p, [req[p] EXCEPT !.pc = "except", !.sessOK = FALSE,
                         !.model = "", !.exc = "IntegrityError"])
            /\ UNCHANGED nextCaseId
       ELSE /\ Set(p, [req[p] EXCEPT !.pc = "orders", !.model = "",
                         !.newCase = nextCaseId])
            /\ nextCaseId' = nextCaseId + 1
    /\ UNCHANGED <<ledger, cases, orders, overlapped, client, dl, web, parsed, page>>

\* Faulty variant of SaveOrders: only the last document of the list is saved.
SaveOrdersLatestOnly(p) ==
    /\ req[p].pc = "orders"
    /\ LET os == req[p].payload.orders
           pend == PendingOrders(req[p].newCase, os)
       IN  IF Len(pend) < Len(os)
           THEN /\ Set(p, [req[p] EXCEPT !.pc = "except", !.pendOrders = pend,
                             !.exc = "AttributeError"])
                /\ UNCHANGED <<ledger, cases, orders>>
           ELSE IF CommitFails(pend)
           THEN /\ Set(p, [req[p] EXCEPT !.pc = "except", !.sessOK = FALSE,
                             !.newCase = 0, !.exc = "IntegrityError"])
                /\ UNCHANGED <<ledger, cases, orders>>
           ELSE /\ cases' = cases \cup { NewCaseRow(req[p]) }
                /\ orders' = orders \cup { pend[i] : i \in {Len(pend)} \ {0} }
                /\ ledger' = [ledger EXCEPT ![req[p].qid] =
                                CompleteSuccess(@, req[p].newCase)]
                /\ Set(p, [req[p] EXCEPT !.pc = "render",
                             !.resp = [kind |-> "fresh", case_id |-> req[p].newCase,
                                       summary |-> req[p].summary, msg |-> ""]])
    /\ UNCHANGED <<nextCaseId, overlapped, client, dl, web, parsed, page>>

\* The loop over scraped_data.get('orders', []), the completion of the attempt
\* as success and db.session.commit().  A descriptor that is not a mapping
\* raises inside the loop, with the orders before it already added; a refused
\* commit rolls everything back and leaves the session inactive.
SaveOrders(p) ==
    /\ req[p].pc = "orders"
    /\ LET os == req[p].payload.orders
           pend == PendingOrders(req[p].newCase, os)
       IN  IF Len(pend) < Len(os)
           THEN /\ Set(p, [req[p] EXCEPT !.pc = "except", !.pendOrders = pend,
                             !.exc = "AttributeError"])
                /\ UNCHANGED <<ledger, cases, orders>>
           ELSE IF CommitFails(pend)
           THEN /\ Set(p, [req[p] EXCEPT !.pc = "except", !.sessOK = FALSE,
                             !.newCase = 0, !.exc = "IntegrityError"])
                /\ UNCHANGED <<ledger, cases, orders>>
           ELSE /\ cases' = cases \cup { NewCaseRow(req[p]) }
                /\ orders' = orders \cup Range(pend)
                /\ ledger' = [ledger EXCEPT ![req[p].qid] =
                                CompleteSuccess(@, req[p].newCase)]
                /\ Set(p, [req[p] EXCEPT !.pc = "render",
                             !.resp = [kind |-> "fresh", case_id |-> req[p].newCase,
                                       summary |-> req[p].summary, msg |-> ""]])
    /\ UNCHANGED <<nextCaseId, overlapped, client, dl, web, parsed, page>>

\* return render_template('result.html', ...): the response leaves search.
Render(p) ==
    /\ req[p].pc = "render"
    /\ Set(p, [req[p] EXCEPT !.pc = "done", !.payload = NoPayload])
    /\ UNCHANGED <<ledger, cases, orders, nextCaseId, overlapped, client, dl, web, parsed, page>>

\* Faulty variant of HandlerCommits: the commit of the handler never goes through.
HandlerNeverCommits(r) == FALSE

\* Whether the commit of the exception handler goes through: not on a session
\* left inactive by a refused flush, and not when its own flush is refused.
HandlerCommits(r) == r.sessOK /\ ~CommitFails(r.pendOrders)

\* except Exception as e: the attempt is set failed with str(e) and the session
\* is committed as it stands, inside try/except: pass; then the error page.
Handler(p) ==
    /\ req[p].pc = "except"
    /\ IF HandlerCommits(req[p])
       THEN /\ ledger' = [ledger EXCEPT ![req[p].qid] = CompleteFailed(@, req[p].exc)]
            /\ cases' = IF req[p].newCase = 0 THEN cases
                        ELSE cases \cup { NewCaseRow(req[p]) }
            /\ orders' = orders \cup Range(req[p].pendOrders)
       ELSE UNCHANGED <<ledger, cases, orders>>
    /\ Set(p, [req[p] EXCEPT !.pc = "done", !.payload = NoPayload,
                 !.newCase = 0, !.pendOrders = <<>>,
                 !.resp = ErrorResponse(req[p].exc)])
    /\ UNCHANGED <<nextCaseId, overlapped, client, dl, web, parsed, page>>

\* render_template raises inside the try block, after the attempt was
\* completed and committed: control passes to the exception handler.
RenderRaises(p) ==
    /\ req[p].pc = "render"
    /\ Set(p, [req[p] EXCEPT !.pc = "except", !.exc = "TemplateError",
                 !.resp = NoResponse])
    /\ UNCHANGED <<ledger, cases, orders, nextCaseId, overlapped, client, dl, web, parsed, page>>

Step(p) ==
    \/ Reject(p)
    \/ Begin(p)
    \/ Lookup(p)
    \/ CacheHit(p)
    \/ Scrape(p)
    \/ Summarize(p)
    \/ AddCase(p)
    \/ SaveOrders(p)
    \/ Render(p)
    \/ Handler(p)

Next == \E p \in Procs : Step(p)

\* The pipeline with the result page always rendering.
Spec == Init /\ [][Next]_vars

NextRender == \E p \in Procs : Step(p) \/ RenderRaises(p)

\* The pipeline with a result page whose rendering may raise.
SpecRender == Init /\ [][NextRender]_vars

\* ------------------------------------------------------- parsed_data
\* Python values as <<type, content>>: scalars carry their text, list and
\* tuple a sequence of values, dict a set of <<key, value>> pairs.
PyScalars ==
    { <<"str", "Pending">>, <<"int", "3">>, <<"bool", "True">>,
      <<"NoneType", "None">>, <<"datetime", "2024-12-10 00:00:00">> }

PyKeys == { <<"str", "status">>, <<"str", "orders">>, <<"int", "1">> }

PyValues ==
    PyScalars
      \cup { <<"list", <<v>>>> : v \in PyScalars }
      \cup { <<"tuple", <<v>>>> : v \in { <<"int", "3">> } }
      \cup { <<"dict", { <<k, <<"str", "Pending">>>> }>> : k \in PyKeys }

\* The mappings handed to set_parsed_data: up to two entries.
Mappings ==
    { {} }
      \cup { { <<k, v>> } : k \in PyKeys, v \in PyValues }
      \cup { { << <<"str", "status">>, v >>, << <<"str", "orders">>, w >> } :
               v \in PyScalars, w \in PyValues }

\* json.dumps of a dict key: str as it is, int, bool and None by their JSON
\* text.
DumpKey(k) ==
    CASE k[1] = "str" -> k[2]
      [] k[1] = "bool" -> (IF k[2] = "True" THEN "true" ELSE "false")
      [] k[1] = "NoneType" -> "null"
      [] OTHER -> k[2]

\* json.dumps(v, default=str) as the JSON value it writes: list and tuple
\* become arrays, dict an object with string keys, and a value json does not
\* know is replaced by its str().
RECURSIVE Dumps(_)
Dumps(v) ==
    CASE v[1] = "str" -> <<"string", v[2]>>
      [] v[1] = "int" -> <<"number", v[2]>>
      [] v[1] = "bool" -> <<(IF v[2] = "True" THEN "true" ELSE "false"), "">>
      [] v[1] = "NoneType" -> <<"null", "">>
      [] v[1] \in {"list", "tuple"} ->
           <<"array", [i \in 1..Len(v[2]) |-> Dumps(v[2][i])]>>
      [] v[1] = "dict" ->
           <<"object", { <<DumpKey(e[1]), Dumps(e[2])>> : e \in v[2] }>>
      [] OTHER -> <<"string", v[2]>>

\* json.loads of a JSON value: arrays become lists, objects dicts with str
\* keys.
RECURSIVE Loads(_)
Loads(j) ==
    CASE j[1] = "string" -> <<"str", j[2]>>
      [] j[1] = "number" -> <<"int", j[2]>>
      [] j[1] = "true" -> <<"bool", "True">>
      [] j[1] = "false" -> <<"bool", "False">>
      [] j[1] = "null" -> <<"NoneType", "None">>
      [] j[1] = "array" -> <<"list", [i \in 1..Len(j[2]) |-> Loads(j[2][i])]>>
      [] OTHER -> <<"dict", { << <<"str", e[1]>>, Loads(e[2]) >> : e \in j[2] }>>

\* set_parsed_data: self.parsed_data = json.dumps(data_dict, default=str)
SetParsedData ==
    /\ parsed.pc = "new"
    /\ parsed' = [parsed EXCEPT !.pc = "set",
                    !.column = Dumps(<<"dict", parsed.d>>)]
    /\ UNCHANGED <<ledger, cases, orders, nextCaseId, req, overlapped, client, dl, web, page>>

\* Faulty variant of GetParsedData: the stored text is never parsed.
GetParsedDataEmpty ==
    /\ parsed.pc = "set"
    /\ parsed' = [parsed EXCEPT !.pc = "read", !.loaded = {}]
    /\ UNCHANGED <<ledger, cases, orders, nextCaseId, req, overlapped, client, dl, web, page>>

\* get_parsed_data: json.loads(self.parsed_data), {} when the column is empty.
GetParsedData ==
    /\ parsed.pc = "set"
    /\ parsed' = [parsed EXCEPT !.pc = "read",
                    !.loaded = IF parsed.column = <<"NULL">> THEN {}
                               ELSE Loads(parsed.column)[2]]
    /\ UNCHANGED <<ledger, cases, orders, nextCaseId, req, overlapped, client, dl, web, page>>

\* A CourtCase object about to be given each of the mappings.
InitParsed ==
    /\ ledger = <<>>
    /\ cases = {}
    /\ orders = {}
    /\ nextCaseId = 1
    /\ req = [p \in Procs |-> IdleRequest]
    /\ overlapped = FALSE
    /\ client \in BOOLEAN
    /\ dl = [d \in Downloaders |-> IdleDownload]
    /\ web = IdleWeb
    /\ parsed \in { [NoParsed EXCEPT !.d = m] : m \in Mappings }
    /\ page = NoPage

NextParsed == SetParsedData \/ GetParsedData

\* set_parsed_data followed by get_parsed_data, over the mappings.
SpecParsed == InitParsed /\ [][NextParsed]_vars

\* ------------------------------------------------- the shipped adapter
\* The forms sent to the application with the shipped adapter: one form and
\* the forms that differ from it in one field.
BaseForm ==
    [ case_type |-> <<"Civil Appeal">>, case_number |-> <<"1", "0", "1">>,
      filing_year |-> <<"2", "0", "2", "4">>, court_name |-> <<"Delhi High Court">> ]

RawForms ==
    { BaseForm }
      \cup { [BaseForm EXCEPT !.case_type = t] :
               t \in { <<" ", "Civil Appeal", " ">>, <<"Company Petition">> } }
      \cup { [BaseForm EXCEPT !.case_number = n] :
               n \in { <<"1", "0", "1", " ">>, <<"^2">>, <<"1", "2", "a">> } }
      \cup { [BaseForm EXCEPT !.filing_year = y] :
               y \in { <<" ", "2", "0", "2", "4">>, <<"0", "2", "0", "2", "4">> } }
      \cup { [BaseForm EXCEPT !.court_name = c] :
               c \in { <<"Delhi High Court", " ">>, Absent } }

\* A document of the demo data: a mapping with a link and a parsable date.
DemoOrder(name, n) ==
    [ shape |-> "dict", date |-> "valid",
      url |-> "/orders/" \o name \o "_" \o n \o ".pdf" ]

\* case_types_mapping.get(case_type, default)['orders'] of
\* _get_case_type_details, for case number n.
DemoOrders(case_type, n) ==
    CASE case_type = "Civil Appeal" ->
           << DemoOrder("civil_judgment", n), DemoOrder("civil_order", n) >>
      [] case_type = "Criminal Appeal" ->
           << DemoOrder("criminal_bail", n), DemoOrder("criminal_notice", n) >>
      [] case_type = "Writ Petition" ->
           << DemoOrder("writ_notice", n), DemoOrder("writ_admission", n) >>
      [] case_type = "Company Petition" -> << DemoOrder("company_interim", n) >>
      [] OTHER -> << DemoOrder("general_order", n) >>

\* get_demo_data: 'raw_html' is text and 'orders' the list of the case type.
DemoData(fp) == [ raw_html |-> "text", orders |-> DemoOrders(fp[1], fp[2]) ]

\* search, validation failed, for the forms sent with the shipped adapter.
RejectRaw(p) ==
    /\ req[p].pc = "idle"
    /\ \A q \in Procs : q < p => req[q].pc # "idle"
    /\ \E form \in RawForms :
         LET errs == ValidationErrors(form)
         IN  /\ errs # <<>>
             /\ Set(p, [req[p] EXCEPT !.pc = "done", !.form = form,
                          !.errors = errs,
                          !.resp = [NoResponse EXCEPT !.kind = "validation",
                                      !.msg = ErrorList(errs)]])
    /\ UNCHANGED <<ledger, cases, orders, nextCaseId, overlapped, client, dl, web, parsed, page>>

\* search, validation passed, for the forms sent with the shipped adapter;
\* the request record keeps the raw form.
BeginRaw(p) ==
    /\ req[p].pc = "idle"
    /\ \A q \in Procs : q < p => req[q].pc # "idle"
    /\ \E form \in RawForms :
         LET fp == FingerprintOf(form)
         IN  /\ ValidationErrors(form) = <<>>
             /\ ledger' = Append(ledger, [fp |-> fp, status |-> "in_progress",
                                          case_id |-> 0, err |-> "", rt |-> FALSE])
             /\ Set(p, [req[p] EXCEPT !.pc = "lookup", !.form = form, !.fp = fp,
                          !.qid = Len(ledger) + 1])
             /\ overlapped' = (overlapped \/ \E q \in Procs \ {p} :
                                               InFlight(q) /\ req[q].fp = fp)
    /\ UNCHANGED <<cases, orders, nextCaseId, client, dl, web, parsed, page>>

\* scraper.scrape_case_data as shipped: the demo data of the case, from the
\* try block or, when that raised, from the same call in the except block;
\* int(case_number) raises ValueError, both times, on a case number that
\* isdigit() accepted and int() refuses.
ScrapeShipped(p) ==
    /\ req[p].pc = "scrape"
    /\ LET n == Fields(req[p].form).case_number
       IN  IF \E i \in 1..Len(n) : n[i] \in Superscripts
           THEN Set(p, [req[p] EXCEPT !.pc = "except", !.fetched = "raised",
                          !.exc = "invalid literal for int() with base 10",
                          !.scrapeCalls = @ + 1])
           ELSE Set(p, [req[p] EXCEPT !.pc = "summarize", !.fetched = "data",
                          !.payload = DemoData(req[p].fp),
                          !.scrapeCalls = @ + 1])
    /\ UNCHANGED <<ledger, cases, orders, nextCaseId, overlapped, client, dl, web, parsed, page>>

StepShipped(p) ==
    \/ RejectRaw(p)
    \/ BeginRaw(p)
    \/ Lookup(p)
    \/ CacheHit(p)
    \/ ScrapeShipped(p)
    \/ Summarize(p)
    \/ AddCase(p)
    \/ SaveOrders(p)
    \/ Render(p)
    \/ Handler(p)

NextShipped == \E p \in Procs : StepShipped(p)

\* The pipeline with the adapter of src/scraper.py.
SpecShipped == Init /\ [][NextShipped]_vars

\* ------------------------------------------------- error classification
\* The words an exception text is made of, and for each word the lower-case
\* keywords it contains.
ErrorWords ==
    { "Connection", "connection", "ReadTimeout", "timeout", "Database", "refused" }

WordMentions ==
    { <<"Connection", "connection">>, <<"connection", "connection">>,
      <<"ReadTimeout", "timeout">>, <<"timeout", "timeout">>,
      <<"Database", "database">> }

\* Texts of at most MaxWords words.
ErrorTexts == SeqsUpTo(ErrorWords, MaxWords)

\* keyword in str(e).lower()
TextMentions(text, keyword) ==
    \E i \in 1..Len(text) : <<text[i], keyword>> \in WordMentions

\* Faulty variant of ErrorMessageOf: the timeout is tested before the connection.
ErrorMessageOfTimeoutFirst(text) ==
    IF TextMentions(text, "timeout")
    THEN "Request timed out. The court website may be busy. Please try again."
    ELSE IF TextMentions(text, "connection")
    THEN "Unable to connect to court website. Please try again later."
    ELSE IF TextMentions(text, "database")
    THEN "Database error occurred. Please try again."
    ELSE "An unexpected error occurred while processing your request."

\* error_message of the handler of search, from the words of str(e).
ErrorMessageOf(text) ==
    IF TextMentions(text, "connection")
    THEN "Unable to connect to court website. Please try again later."
    ELSE IF TextMentions(text, "timeout")
    THEN "Request timed out. The court website may be busy. Please try again."
    ELSE IF TextMentions(text, "database")
    THEN "Database error occurred. Please try again."
    ELSE "An unexpected error occurred while processing your request."

\* The handler of search picks the message of the error page.
ShowError ==
    /\ page.pc = "raised"
    /\ page' = [page EXCEPT !.pc = "shown", !.msg = ErrorMessageOf(page.text)]
    /\ UNCHANGED <<ledger, cases, orders, nextCaseId, req, overlapped, client, dl, web, parsed>>

\* An exception with each of the texts has reached the handler.
InitClassify ==
    /\ ledger = <<>>
    /\ cases = {}
    /\ orders = {}
    /\ nextCaseId = 1
    /\ req = [p \in Procs |-> IdleRequest]
    /\ overlapped = FALSE
    /\ client \in BOOLEAN
    /\ dl = [d \in Downloaders |-> IdleDownload]
    /\ web = IdleWeb
    /\ parsed = NoParsed
    /\ page \in { [NoPage EXCEPT !.pc = "raised", !.text = t] : t \in ErrorTexts }

NextClassify == ShowError

\* The classification of an exception text into the message shown.
SpecClassify == InitClassify /\ [][NextClassify]_vars

\* ------------------------------------------------------- download_pdf
\* The document a download_pdf request names: CaseOrder.query.get(order_id).
OrderOf(doc) == { o \in orders : <<o.case_id, o.idx>> = doc }

\* The ids a download_pdf request can name: those of the stored documents and
\* one that no document has.
DocIds == { <<o.case_id, o.idx>> : o \in orders } \cup { <<0, 1>> }

\* order.case.case_number
CaseNumberOf(o) == (CHOOSE c \in cases : c.id = o.case_id).fp[2]

\* f"order_{order_id}_{order.case.case_number.replace('/', '_')}.pdf"; the
\* case numbers of stored cases are digits only, which replace leaves alone.
FileName(o) ==
    "order_" \o ToString(o.case_id) \o "-" \o ToString(o.idx)
             \o "_" \o CaseNumberOf(o) \o ".pdf"

\* scraper.download_pdf on success: os.path.join(os.getcwd(), 'downloads', filename)
LocalPath(filename) == "downloads/" \o filename

DlSet(d, r) == dl' = [dl EXCEPT ![d] = r]

DlDone(d, status, msg, file) ==
    DlSet(d, [dl[d] EXCEPT !.pc = "done", !.status = status, !.msg = msg,
                           !.file = file])

\* Faulty variant of DlRead: a cached document whose file is gone is fetched
\* again.
DlReadRefetches(d) ==
    /\ dl[d].pc = "idle"
    /\ \A e \in Downloaders : e < d => dl[e].pc # "idle"
    /\ \E doc \in DocIds :
         IF OrderOf(doc) = {}
         THEN DlSet(d, [dl[d] EXCEPT !.pc = "done", !.doc = doc, !.status = 500,
                                     !.msg = "Download failed"])
         ELSE LET o == CHOOSE o \in OrderOf(doc) : TRUE
              IN  IF o.pdf_url = ""
                  THEN DlSet(d, [dl[d] EXCEPT !.pc = "done", !.doc = doc,
                                   !.status = 404, !.msg = "No PDF URL available"])
                  ELSE IF ~o.pdf_downloaded
                  THEN DlSet(d, [dl[d] EXCEPT !.pc = "fetch", !.doc = doc])
                  ELSE \E exists \in BOOLEAN :
                         IF o.local_pdf_path # "" /\ exists
                         THEN DlSet(d, [dl[d] EXCEPT !.pc = "done", !.doc = doc,
                                          !.cached = TRUE, !.status = 200,
                                          !.file = o.local_pdf_path])
                         ELSE DlSet(d, [dl[d] EXCEPT !.pc = "fetch", !.doc = doc,
                                          !.cached = TRUE])
    /\ UNCHANGED <<ledger, cases, orders, nextCaseId, req, overlapped, client, web, parsed, page>>

\* download_pdf up to the fetch: get_or_404 (its NotFound is caught by the
\* except branch of the view), the check of pdf_url, and the branch on
\* pdf_downloaded; a cached document is sent from disk when the file is
\* still there.
DlRead(d) ==
    /\ dl[d].pc = "idle"
    /\ \A e \in Downloaders : e < d => dl[e].pc # "idle"
    /\ \E doc \in DocIds :
         IF OrderOf(doc) = {}
         THEN DlSet(d, [dl[d] EXCEPT !.pc = "done", !.doc = doc, !.status = 500,
                                     !.msg = "Download failed"])
         ELSE LET o == CHOOSE o \in OrderOf(doc) : TRUE
              IN  IF o.pdf_url = ""
                  THEN DlSet(d, [dl[d] EXCEPT !.pc = "done", !.doc = doc,
                                   !.status = 404, !.msg = "No PDF URL available"])
                  ELSE IF ~o.pdf_downloaded
                  THEN DlSet(d, [dl[d] EXCEPT !.pc = "fetch", !.doc = doc])
                  ELSE \E exists \in BOOLEAN :
                         IF o.local_pdf_path # "" /\ exists
                         THEN DlSet(d, [dl[d] EXCEPT !.pc = "done", !.doc = doc,
                                          !.cached = TRUE, !.status = 200,
                                          !.file = o.local_pdf_path])
                         ELSE DlSet(d, [dl[d] EXCEPT !.pc = "done", !.doc = doc,
                                          !.cached = TRUE, !.status = 404,
                                          !.msg = "PDF not available"])
    /\ UNCHANGED <<ledger, cases, orders, nextCaseId, req, overlapped, client, web, parsed, page>>

\* Faulty variant of DlFetch: a failed fetch marks the document uncached.
DlFetchClearsOnFailure(d) ==
    /\ dl[d].pc = "fetch"
    /\ LET o == CHOOSE o \in OrderOf(dl[d].doc) : TRUE
       IN  \E ok \in BOOLEAN :
             IF ok
             THEN /\ orders' = (orders \ {o}) \cup
                        { [o EXCEPT !.local_pdf_path = LocalPath(FileName(o)),
                                    !.pdf_downloaded = TRUE,
                                    !.pdf_filename = FileName(o)] }
                  /\ DlDone(d, 200, "", LocalPath(FileName(o)))
             ELSE /\ orders' = (orders \ {o}) \cup
                        { [o EXCEPT !.local_pdf_path = "", !.pdf_downloaded = FALSE,
                                    !.pdf_filename = ""] }
                  /\ DlDone(d, 500, "Failed to download PDF", "")
    /\ UNCHANGED <<ledger, cases, nextCaseId, req, overlapped, client, web, parsed, page>>

\* Faulty variant of DlFetch: the file is stored under a name of the request.
DlFetchOwnName(d) ==
    /\ dl[d].pc = "fetch"
    /\ LET o == CHOOSE o \in OrderOf(dl[d].doc) : TRUE
           name == ToString(d) \o "_" \o FileName(o)
       IN  \E ok \in BOOLEAN :
             IF ok
             THEN /\ orders' = (orders \ {o}) \cup
                        { [o EXCEPT !.local_pdf_path = LocalPath(name),
                                    !.pdf_downloaded = TRUE,
                                    !.pdf_filename = name] }
                  /\ DlDone(d, 200, "", LocalPath(name))
             ELSE /\ UNCHANGED orders
                  /\ DlDone(d, 500, "Failed to download PDF", "")
    /\ UNCHANGED <<ledger, cases, nextCaseId, req, overlapped, client, web, parsed, page>>

\* Faulty variant of DlFetch: the local path is recorded before the fetch has
\* succeeded.
DlFetchPathFirst(d) ==
    /\ dl[d].pc = "fetch"
    /\ LET o == CHOOSE o \in OrderOf(dl[d].doc) : TRUE
       IN  \E ok \in BOOLEAN :
             IF ok
             THEN /\ orders' = (orders \ {o}) \cup
                        { [o EXCEPT !.local_pdf_path = LocalPath(FileName(o)),
                                    !.pdf_downloaded = TRUE,
                                    !.pdf_filename = FileName(o)] }
                  /\ DlDone(d, 200, "", LocalPath(FileName(o)))
             ELSE /\ orders' = (orders \ {o}) \cup
                        { [o EXCEPT !.local_pdf_path = LocalPath(FileName(o))] }
                  /\ DlDone(d, 500, "Failed to download PDF", "")
    /\ UNCHANGED <<ledger, cases, nextCaseId, req, overlapped, client, web, parsed, page>>

\* Faulty variant of DlFetch: the download also stamps the document's date.
DlFetchRedates(d) ==
    /\ dl[d].pc = "fetch"
    /\ LET o == CHOOSE o \in OrderOf(dl[d].doc) : TRUE
       IN  \E ok \in BOOLEAN :
             IF ok
             THEN /\ orders' = (orders \ {o}) \cup
                        { [o EXCEPT !.local_pdf_path = LocalPath(FileName(o)),
                                    !.pdf_downloaded = TRUE,
                                    !.pdf_filename = FileName(o),
                                    !.order_date = "today"] }
                  /\ DlDone(d, 200, "", LocalPath(FileName(o)))
             ELSE /\ UNCHANGED orders
                  /\ DlDone(d, 500, "Failed to download PDF", "")
    /\ UNCHANGED <<ledger, cases, nextCaseId, req, overlapped, client, web, parsed, page>>

\* download_pdf from the fetch on: scraper.download_pdf returns the local path
\* or None; with a path the three fields are set and committed and the file
\* is sent, with None nothing is written.
DlFetch(d) ==
    /\ dl[d].pc = "fetch"
    /\ LET o == CHOOSE o \in OrderOf(dl[d].doc) : TRUE
       IN  \E ok \in BOOLEAN :
             IF ok
             THEN /\ orders' = (orders \ {o}) \cup
                        { [o EXCEPT !.local_pdf_path = LocalPath(FileName(o)),
                                    !.pdf_downloaded = TRUE,
                                    !.pdf_filename = FileName(o)] }
                  /\ DlDone(d, 200, "", LocalPath(FileName(o)))
             ELSE /\ UNCHANGED orders
                  /\ DlDone(d, 500, "Failed to download PDF", "")
    /\ UNCHANGED <<ledger, cases, nextCaseId, req, overlapped, client, web, parsed, page>>

\* --------------------------------------------------------- api_search
\* The JSON bodies of the API requests: no JSON at all, a required field
\* missing, a filing year that int() refuses, and a complete body.
ApiBodies == { "none", "missing", "badyear", "complete" }

\* Faulty variant of ApiSearch: a case the store holds is answered from the store.
ApiSearchCached ==
    /\ web.pc = "idle"
    /\ \E body \in ApiBodies :
         CASE body = "none" ->
                web' = [web EXCEPT !.pc = "done", !.status = 500,
                          !.msg = "'NoneType' object has no attribute 'get'"]
           [] body = "missing" ->
                web' = [web EXCEPT !.pc = "done", !.status = 400,
                          !.msg = "Missing required fields"]
           [] body = "badyear" ->
                web' = [web EXCEPT !.pc = "done", !.status = 500,
                          !.msg = "invalid literal for int() with base 10: '20x4'"]
           [] OTHER ->
                \E fp \in Fingerprints :
                  IF FindCase(fp) # {}
                  THEN \E c \in FindCase(fp) :
                         web' = [web EXCEPT !.pc = "done", !.fp = fp, !.status = 200,
                                   !.summary = c.ai_summary]
                  ELSE
                  \/ \E e \in AdapterErrors :
                       web' = [web EXCEPT !.pc = "done", !.fp = fp, !.status = 500,
                                 !.msg = e, !.scrapeCalls = 1]
                  \/ web' = [web EXCEPT !.pc = "done", !.fp = fp, !.status = 404,
                               !.msg = "No data found", !.scrapeCalls = 1]
                  \/ \E d \in Payloads, o \in CallOutcomes(client) :
                       web' = [web EXCEPT !.pc = "done", !.fp = fp, !.status = 200,
                                 !.summary = SummaryOf(o, fp, d),
                                 !.scrapeCalls = 1, !.sumCalls = 1]
    /\ UNCHANGED <<ledger, cases, orders, nextCaseId, req, overlapped, client, dl, parsed, page>>

\* api_search: the body is read, the three fields are required, the adapter
\* and the summarizer are called, and any exception is answered with its text.
\* Nothing is read from or written to the database.
ApiSearch ==
    /\ web.pc = "idle"
    /\ \E body \in ApiBodies :
         CASE body = "none" ->
                web' = [web EXCEPT !.pc = "done", !.status = 500,
                          !.msg = "'NoneType' object has no attribute 'get'"]
           [] body = "missing" ->
                web' = [web EXCEPT !.pc = "done", !.status = 400,
                          !.msg = "Missing required fields"]
           [] body = "badyear" ->
                web' = [web EXCEPT !.pc = "done", !.status = 500,
                          !.msg = "invalid literal for int() with base 10: '20x4'"]
           [] OTHER ->
                \E fp \in Fingerprints :
                  \/ \E e \in AdapterErrors :
                       web' = [web EXCEPT !.pc = "done", !.fp = fp, !.status = 500,
                                 !.msg = e, !.scrapeCalls = 1]
                  \/ web' = [web EXCEPT !.pc = "done", !.fp = fp, !.status = 404,
                               !.msg = "No data found", !.scrapeCalls = 1]
                  \/ \E d \in Payloads, o \in CallOutcomes(client) :
                       web' = [web EXCEPT !.pc = "done", !.fp = fp, !.status = 200,
                                 !.summary = SummaryOf(o, fp, d),
                                 !.scrapeCalls = 1, !.sumCalls = 1]
    /\ UNCHANGED <<ledger, cases, orders, nextCaseId, req, overlapped, client, dl, parsed, page>>

\* The response of api_search has gone out and the next API request comes
\* in; prev keeps the fingerprint of the call before and how often it called
\* the adapter and the summarizer.
ApiReturn ==
    /\ web.pc = "done"
    /\ web.served + 1 < MaxApiCalls
    /\ web' = [IdleWeb EXCEPT !.served = web.served + 1,
                 !.prev = <<web.fp, web.scrapeCalls, web.sumCalls>>]
    /\ UNCHANGED <<ledger, cases, orders, nextCaseId, req, overlapped, client, dl, parsed, page>>

\* ------------------------------------------------------------ the site
\* The store after one search has saved a case with two documents, the first
\* with a link and the second without, and has returned.
StoredFingerprint == <<"Civil Appeal", "101", 2024, "Delhi High Court">>

StoredOrders ==
    << [shape |-> "dict", date |-> "valid", url |-> "/orders/1.pdf"],
       [shape |-> "dict", date |-> "invalid", url |-> ""] >>

InitSite ==
    /\ ledger = << [fp |-> StoredFingerprint, status |-> "success",
                    case_id |-> 1, err |-> "", rt |-> TRUE] >>
    /\ cases = { [id |-> 1, fp |-> StoredFingerprint,
                  ai_summary |-> FallbackSummaryText, parsed_orders |-> 2,
                  by |-> 1] }
    /\ orders = Range(PendingOrders(1, StoredOrders))
    /\ nextCaseId = 2
    /\ req = [p \in Procs |-> IdleRequest]
    /\ overlapped = FALSE
    /\ client \in BOOLEAN
    /\ dl = [d \in Downloaders |-> IdleDownload]
    /\ web = IdleWeb
    /\ parsed = NoParsed
    /\ page = NoPage

\* The search requests of the site: one at a time.
SiteProcs == { 1 }

NextSite ==
    \/ \E p \in SiteProcs : Step(p)
    \/ \E d \in Downloaders : DlRead(d) \/ DlFetch(d)
    \/ ApiSearch

\* All routes of the application over a store that holds a case: one search
\* request, concurrent download_pdf requests and an api_search request.
SpecSite == InitSite /\ [][NextSite]_vars

NextLive == \E p \in SiteProcs : Step(p)

\* One search request over a store that holds a case, taking its next step
\* sooner or later: each call of the adapter and of the summarizer returns or
\* raises, and search has no wait, loop or lock.
SpecLive == InitSite /\ [][NextLive]_vars /\ \A p \in SiteProcs : WF_vars(Step(p))

NextApi == ApiSearch \/ ApiReturn

\* api_search requests, one after the other, over a store that holds a case.
SpecApi == InitSite /\ [][NextApi]_vars

\* ------------------------------------------------------------------ claims
Attempt(p) == ledger[req[p].qid]

Finished(p) == req[p].pc = "done" /\ req[p].qid # 0

CasesOf(fp) == { c \in cases : c.fp = fp }

CasesBy(p) == { c \in cases : c.by = req[p].qid }

OrdersOfCase(c) == { o \in orders : o.case_id = c.id }

\* C1: every attempt search opened in_progress holds a committed terminal
\* status once search has returned its response, on every exit path.
C1_TerminalBeforeResponse ==
    \A p \in Procs : Finished(p) => Attempt(p).status \in Terminal

\* C2: an attempt's status moves only from in_progress to one terminal status;
\* a terminal status is never changed again, also when a later step of the
\* same request raises and the exception handler runs.
C2_TerminalIsFinal ==
    [][ \A i \in 1..Len(ledger) :
          ledger[i].status \in Terminal => ledger'[i].status = ledger[i].status ]_vars

\* C3: a case is saved atomically with its documents: the store holds a case
\* together with all the CaseOrder rows of its payload's document list or
\* neither, and an attempt in which a step failed between the flush of the
\* case and the final commit has committed no case row and no document row.
C3_SaveAtomic ==
    /\ \A c \in cases : { o.idx : o \in OrdersOfCase(c) } = 1..c.parsed_orders
    /\ \A o \in orders : \E c \in cases : c.id = o.case_id
    /\ \A p \in Procs : Finished(p) /\ req[p].exc = "AttributeError" => CasesBy(p) = {}

\* C4 (as stated): for each fingerprint the Case Store holds at most one
\* CourtCase row, at every reachable state.
C4_AtMostOnePerFingerprint ==
    \A fp \in Fingerprints : Cardinality(CasesOf(fp)) <= 1

\* C4 (amended): as long as no two requests for the same fingerprint have
\* overlapped, the Case Store holds at most one CourtCase row per fingerprint.
C4_AtMostOneWithoutOverlap ==
    ~overlapped => \A fp \in Fingerprints : Cardinality(CasesOf(fp)) <= 1

\* C4 witness: two requests for one fingerprint ran one after the other, the
\* second was served from the one stored case.
C4_Witness ==
    /\ ~overlapped
    /\ \E p, q \in Procs :
         /\ p # q /\ Finished(p) /\ Finished(q) /\ req[p].fp = req[q].fp
         /\ Attempt(p).status = "success" /\ Attempt(q).status = "cache_hit"
         /\ Cardinality(CasesOf(req[p].fp)) = 1

\* A request whose store lookup missed: it went on to the source adapter.
Missed(p) == req[p].qid # 0 /\ (req[p].pc = "scrape" \/ req[p].fetched # "none")

\* C5: two requests for one fingerprint that both missed the store both call
\* the source adapter, both call the summarizer on the data they got and both
\* try to persist a case; neither is blocked or turned into a cache hit, and
\* they end with two case rows for the fingerprint or with a storage failure
\* of one of them.
C5_RaceBothProceed ==
    /\ \A p \in Procs : InFlight(p) => ENABLED Step(p)
    /\ \A p, q \in Procs :
         (p # q /\ req[p].fp = req[q].fp /\ Missed(p) /\ Missed(q)) =>
           /\ req[p].pc # "scrape" => req[p].scrapeCalls = 1
           /\ (req[p].fetched = "data" /\ req[p].pc # "summarize") => req[p].sumCalls = 1
           /\ Attempt(p).status # "cache_hit"
           /\ (Finished(p) /\ req[p].fetched = "data") =>
                \/ Attempt(p).status = "success" /\ CasesBy(p) # {}
                \/ req[p].exc # ""
           /\ (Finished(p) /\ Finished(q) /\ req[p].fetched = "data"
                 /\ req[q].fetched = "data") =>
                \/ Cardinality(CasesOf(req[p].fp)) >= 2
                \/ req[p].exc # "" \/ req[q].exc # ""

\* C5 witness: two overlapping requests for one fingerprint both missed, both
\* fetched and summarized, and left two case rows.
C5_Witness ==
    /\ overlapped
    /\ \E p, q \in Procs :
         /\ p # q /\ req[p].fp = req[q].fp /\ Finished(p) /\ Finished(q)
         /\ req[p].sumCalls = 1 /\ req[q].sumCalls = 1
         /\ Attempt(p).status = "success" /\ Attempt(q).status = "success"
         /\ Cardinality(CasesOf(req[p].fp)) = 2

C7_CacheHitInv ==
    \A p \in Procs : req[p].existing # 0 =>
      /\ req[p].scrapeCalls = 0 /\ req[p].sumCalls = 0
      /\ \E c \in cases : c.id = req[p].existing /\ c.fp = req[p].fp
      /\ req[p].pc \in {"render", "done"} =>
           /\ Attempt(p).status = "cache_hit"
           /\ Attempt(p).case_id = req[p].existing
      /\ req[p].pc = "done" => req[p].resp.kind = "cache_hit"

C9_AdapterError ==
    \A p \in Procs : req[p].fetched = "raised" =>
      /\ CasesBy(p) = {}
      /\ \A o \in orders : \E c \in cases : c.id = o.case_id /\ c.by # req[p].qid
      /\ req[p].sumCalls = 0
      /\ Finished(p) =>
           /\ Attempt(p).status = "failed"
           /\ Attempt(p).err = req[p].exc /\ Attempt(p).err # ""
           /\ Attempt(p).case_id = 0
           /\ req[p].resp.kind = "error"

\* C9 witness: a request whose adapter call raised has finished.
C9_Witness ==
    \E p \in Procs : req[p].fetched = "raised" /\ Finished(p)

\* C10: when persisting the new case fails after a successful fetch and
\* summarization, the attempt ends failed and the response still carries the
\* fetched case data and its summary, together with a storage error.
C10_StorageFailureKeepsData ==
    \A p \in Procs :
      (Finished(p) /\ req[p].fetched = "data" /\ req[p].exc = "IntegrityError") =>
        /\ Attempt(p).status = "failed"
        /\ req[p].resp.summary = req[p].summary
        /\ req[p].resp.msg # ""

\* A request that search turned away at validation.
Rejected(p) == req[p].resp.kind = "validation"

\* C11 (state part): a rejected request has no attempt, found nothing in the
\* store, called neither the adapter nor the summarizer and got messages.
C11_RejectedInv ==
    \A p \in Procs : Rejected(p) =>
      /\ req[p].pc = "done" /\ req[p].qid = 0 /\ req[p].existing = 0
      /\ req[p].scrapeCalls = 0 /\ req[p].sumCalls = 0
      /\ req[p].errors # <<>>

\* C11: when validation fails search returns the validation messages without
\* creating a ledger entry, without touching the Case Store and without
\* calling the adapter or the summarizer: the persistent state is unchanged.
C11_RejectLeavesNoTrace ==
    /\ []C11_RejectedInv
    /\ [][ (\E p \in Procs : ~Rejected(p) /\ Rejected(p)') =>
             /\ ledger' = ledger /\ cases' = cases /\ orders' = orders
             /\ nextCaseId' = nextCaseId ]_vars

\* C11 witness: a request was rejected after another one had stored a case.
C11_Witness ==
    \E p, q \in Procs :
      /\ Rejected(p) /\ req[p].qid = 0
      /\ Finished(q) /\ Attempt(q).status = "success" /\ Len(ledger) = 1

\* C12: the attempt of a validated request is committed in_progress before
\* its store lookup, its adapter call and its summarizer call; from then on
\* the committed ledger holds a record of the attempt, in_progress until the
\* request completes it.
C12_AttemptBeforeDownstream ==
    \A p \in Procs :
      /\ (req[p].pc \notin {"idle", "done"} \/ req[p].existing # 0
            \/ req[p].scrapeCalls > 0 \/ req[p].sumCalls > 0) =>
           /\ req[p].qid \in 1..Len(ledger)
           /\ ledger[req[p].qid].fp = req[p].fp
      /\ req[p].pc \in {"lookup", "hit", "scrape", "summarize", "save", "orders"} =>
           /\ req[p].qid \in 1..Len(ledger)
           /\ ledger[req[p].qid].status = "in_progress"

\* C12 witness: a request stands between the adapter call and the summarizer
\* call with its attempt committed in_progress.
C12_Witness ==
    \E p \in Procs :
      /\ req[p].pc = "summarize" /\ req[p].scrapeCalls = 1
      /\ Attempt(p).status = "in_progress"

\* C13: summarize_court_data is total: whatever the model client does (no
\* client, invoke raising, empty content, text) it returns a summary string,
\* and the request goes on to the save with it.
C13_SummarizerTotal ==
    \A p \in Procs :
      /\ req[p].pc = "summarize" =>
           \A o \in CallOutcomes(client) :
             SummaryOf(o, req[p].fp, req[p].payload) # ""
      /\ req[p].pc = "save" =>
           /\ req[p].model \in CallOutcomes(client)
           /\ req[p].exc = ""
      /\ req[p].sumCalls > 0 => req[p].summary # ""

\* C13 witness: the model call raised and the request stands before the save
\* with a summary.
C13_Witness ==
    \E p \in Procs :
      req[p].pc = "save" /\ req[p].model = "raises" /\ req[p].summary # ""

\* C14: whenever the model fails internally, for want of a client or because
\* the model call raises, the summary is the rule-based fallback built from
\* the fields of the case data.
C14_FallbackIsRuleBased ==
    \A p \in Procs :
      (req[p].pc = "save" /\ req[p].model \in {"absent", "raises"}) =>
        req[p].summary = FallbackSummary(req[p].fp, req[p].payload)

C16_IsLatest ==
    \A c \in cases :
      LET docs == OrdersOfCase(c)
          marked == { o \in docs : o.is_latest }
      IN  /\ c.parsed_orders = 1 => marked = docs
          /\ c.parsed_orders >= 2 => marked = {}
          /\ Cardinality(marked) <= 1
          /\ (Cardinality(marked) = 1) <=> (Cardinality(docs) = 1)

\* C17: every attempt with status success is linked to a stored CourtCase
\* that this attempt created and that has the attempt's fingerprint, and no
\* case is stored while the attempt that created it is still in_progress.
C17_SuccessLinked ==
    /\ \A i \in 1..Len(ledger) :
         ledger[i].status = "success" =>
           \E c \in cases : /\ c.id = ledger[i].case_id /\ c.by = i
                            /\ c.fp = ledger[i].fp
    /\ \A c \in cases : ledger[c.by].status # "in_progress"

\* C17 witness: a finished success whose case is stored with a document.
C17_Witness ==
    \E p \in Procs :
      /\ Finished(p) /\ Attempt(p).status = "success"
      /\ \E c \in CasesBy(p) : c.id = Attempt(p).case_id /\ OrdersOfCase(c) # {}

\* C18: a document date that is missing or fails to parse is stored as absent
\* and does not keep the resolution from reaching success.
C18_BadDatesStoredAbsent ==
    \A p \in Procs :
      ( /\ req[p].fetched = "data" /\ req[p].payload.raw_html = "text"
        /\ \A i \in 1..Len(req[p].payload.orders) :
             req[p].payload.orders[i].shape = "dict" ) =>
          /\ req[p].pc # "except"
          /\ req[p].pc = "render" =>
               /\ Attempt(p).status = "success"
               /\ \A c \in CasesBy(p) : \A o \in OrdersOfCase(c) :
                    req[p].payload.orders[o.idx].date # "valid" =>
                      o.order_date = "null"

\* The rules of the CaseQuery invariant a form violates, as messages in the
\* order case type, case number, filing year, court name.
RuleViolations(form) ==
    LET f == Fields(form)
        n == f.case_number
        y == f.filing_year
    IN  (IF f.case_type = <<>> THEN <<"Case Type is required">>
         ELSE IF Join(f.case_type) \notin CourtTypes
         THEN <<"Invalid Case Type selected">> ELSE <<>>)
        \o (IF n = <<>> THEN <<"Case Number is required">>
            ELSE (IF \E i \in 1..Len(n) : n[i] \notin Digits
                  THEN <<"Case Number must contain only numbers (e.g., 123)">>
                  ELSE <<>>)
                 \o (IF Len(n) > 10
                     THEN <<"Case Number is too long (maximum 10 digits)">>
                     ELSE <<>>))
        \o (IF y = <<>> THEN <<"Filing Year is required">>
            ELSE IF \E i \in 1..Len(y) : y[i] \notin Digits
            THEN <<"Filing Year must be a valid number">>
            ELSE IF IntOf(y) < 1947 THEN <<"Filing Year cannot be before 1947">>
            ELSE IF IntOf(y) > CurrentYear
            THEN <<"Filing Year cannot be in the future (current year: "
                     \o ToString(CurrentYear) \o ")">>
            ELSE <<>>)
        \o (IF f.court_name = <<>> THEN <<"Court Name is required">> ELSE <<>>)

\* C19: the messages of a rejected request are the complete list of the rules
\* its form violates, in field order, and not only the first violation.
C19_AllViolationsListed ==
    \A p \in Procs : Rejected(p) => req[p].errors = RuleViolations(req[p].form)

\* The CaseQuery invariant on the stripped fields of a form.
Conforms(form) ==
    LET f == Fields(form)
    IN  /\ Len(f.case_number) \in 1..10
        /\ \A i \in 1..Len(f.case_number) : f.case_number[i] \in Digits
        /\ f.filing_year # <<>>
        /\ \A i \in 1..Len(f.filing_year) : f.filing_year[i] \in Digits
        /\ IntOf(f.filing_year) \in 1947..CurrentYear
        /\ Join(f.case_type) \in CourtTypes
        /\ f.court_name # <<>>

ConformingFingerprints == { FingerprintOf(f) : f \in { g \in Forms : Conforms(g) } }

SameDoc(o, n) == n.case_id = o.case_id /\ n.idx = o.idx

\* C22: marking a document cached is one-way and idempotent: pdf_downloaded
\* never goes from true back to false, and a download_pdf on a document that
\* is already cached leaves its cached flag, local path and filename as they
\* are.
C22_CachedIsOneWay ==
    [][ \A o \in orders :
          o.pdf_downloaded =>
            \E n \in orders' :
              /\ SameDoc(o, n) /\ n.pdf_downloaded
              /\ n.local_pdf_path = o.local_pdf_path
              /\ n.pdf_filename = o.pdf_filename ]_vars

C22_Witness ==
    \E d \in Downloaders :
      /\ dl[d].pc = "done" /\ dl[d].cached /\ dl[d].status = 200
      /\ \E o \in OrderOf(dl[d].doc) :
           o.pdf_downloaded /\ o.local_pdf_path = dl[d].file

\* C23: two download_pdf requests racing on one document, both having read it
\* uncached, both end with the document cached under the local path and
\* filename one download alone gives; no interleaving leaves the document
\* uncached after a successful fetch, or cached with no local path.
C23_RaceSafe ==
    /\ \A o \in orders : o.pdf_downloaded => o.local_pdf_path # ""
    /\ \A d \in Downloaders :
         dl[d].pc = "done" /\ dl[d].status = 200 =>
           \E o \in OrderOf(dl[d].doc) :
             /\ o.pdf_downloaded
             /\ o.local_pdf_path = dl[d].file
             /\ LocalPath(o.pdf_filename) = o.local_pdf_path
    /\ \A d, e \in Downloaders :
         /\ dl[d].pc = "done" /\ dl[d].status = 200
         /\ dl[e].pc = "done" /\ dl[e].status = 200
         /\ dl[d].doc = dl[e].doc
         => dl[d].file = dl[e].file

C23_Witness ==
    \E d, e \in Downloaders :
      /\ d # e /\ dl[d].doc = dl[e].doc
      /\ dl[d].pc = "done" /\ ~dl[d].cached /\ dl[d].status = 200
      /\ dl[e].pc = "done" /\ ~dl[e].cached /\ dl[e].status = 200

C24_PathIffCachedInv ==
    \A o \in orders : (o.local_pdf_path # "") <=> o.pdf_downloaded

\* C24: the local path is set only after a successful fetch: in every state a
\* CaseOrder has a local_pdf_path exactly when pdf_downloaded is true, and a
\* download_pdf whose fetch fails, or whose document has no source URL, leaves
\* the row as it was.
C24_PathIffCached ==
    /\ []C24_PathIffCachedInv
    /\ [][ \A d \in Downloaders :
             dl[d].pc # "done" /\ dl'[d].pc = "done" /\ dl'[d].status # 200
             => orders' = orders ]_vars

C24_Witness ==
    \E d, e \in Downloaders :
      /\ dl[d].pc = "done" /\ dl[d].msg = "Failed to download PDF"
      /\ dl[e].pc = "done" /\ dl[e].msg = "No PDF URL available"
      /\ \A o \in OrderOf(dl[d].doc) : ~o.pdf_downloaded /\ o.local_pdf_path = ""

C25_CalledAtMostOnce ==
    \A p \in Procs : req[p].scrapeCalls <= 1 /\ req[p].sumCalls <= 1

\* C25: the core performs no retry: within one attempt the source adapter is
\* invoked at most once and the summarizer at most once, and an attempt that
\* ended failed or no_data is never run again; only a new request, with a new
\* ledger attempt, resolves the case again.
C25_NoRetry ==
    /\ []C25_CalledAtMostOnce
    /\ [][ \A p \in Procs :
             req[p].qid # 0 /\ Attempt(p).status \in {"failed", "no_data"} =>
               /\ req'[p].qid = req[p].qid
               /\ req'[p].scrapeCalls = req[p].scrapeCalls
               /\ req'[p].sumCalls = req[p].sumCalls ]_vars

C25_Witness ==
    \E p, q \in Procs :
      /\ Finished(p) /\ Attempt(p).status = "failed" /\ req[p].scrapeCalls = 1
      /\ Finished(q) /\ Attempt(q).status = "no_data" /\ req[q].scrapeCalls = 1

\* Whether json has a type of its own for value v: str, int, bool, None, and
\* lists and str-keyed dicts of such values.
RECURSIVE JsonNative(_)
JsonNative(v) ==
    CASE v[1] \in {"str", "int", "bool", "NoneType"} -> TRUE
      [] v[1] = "list" -> \A i \in 1..Len(v[2]) : JsonNative(v[2][i])
      [] v[1] = "dict" -> \A e \in v[2] : e[1][1] = "str" /\ JsonNative(e[2])
      [] OTHER -> FALSE

\* C26 as stated: for every mapping d stored with set_parsed_data(d),
\* get_parsed_data() returns a mapping with the same keys and values as d.
C26_RoundTripEveryMapping ==
    parsed.pc = "read" => parsed.loaded = parsed.d

\* C26: for every mapping d with str keys whose values are str, int, bool,
\* None, or lists and str-keyed dicts of these, stored with
\* set_parsed_data(d), get_parsed_data() returns a mapping with the same keys
\* and values as d.
C26_RoundTripJsonNative ==
    parsed.pc = "read" /\ JsonNative(<<"dict", parsed.d>>) =>
      parsed.loaded = parsed.d

C26_Witness ==
    /\ parsed.pc = "read" /\ JsonNative(<<"dict", parsed.d>>)
    /\ Cardinality(parsed.d) = 2
    /\ \E e \in parsed.d : e[2][1] = "list"
    /\ parsed.loaded = parsed.d

\* C27: a persisted CourtCase is immutable and permanent: after the commit
\* that created it, no operation (search on any path, api_search,
\* download_pdf) changes any of its fields or deletes it.
C27_CaseImmutable ==
    [][ \A c \in cases : c \in cases' ]_vars

C27_Witness ==
    /\ \E p \in Procs : req[p].pc = "done" /\ req[p].resp.kind = "cache_hit"
    /\ \E d \in Downloaders : dl[d].pc = "done" /\ dl[d].status = 200
    /\ web.pc = "done"
    /\ \E c \in cases : c.id = 1 /\ c.ai_summary = FallbackSummaryText

\* C28: the set of documents of a case is fixed when the case is created: no
\* CaseOrder is added to or removed from an existing case, and the only fields
\* of a CaseOrder that ever change are the cached flag, the local path and the
\* filename, set by a completed download.
C28_DocumentsFixed ==
    [][ \A c \in cases :
          /\ { n.idx : n \in { m \in orders' : m.case_id = c.id } }
               = { o.idx : o \in OrdersOfCase(c) }
          /\ \A o \in OrdersOfCase(c) :
               \E n \in orders' :
                 /\ SameDoc(o, n)
                 /\ [n EXCEPT !.pdf_downloaded = o.pdf_downloaded,
                              !.local_pdf_path = o.local_pdf_path,
                              !.pdf_filename = o.pdf_filename] = o
                 /\ (n # o => \E d \in Downloaders :
                               dl[d].pc = "fetch" /\ dl'[d].status = 200) ]_vars

C28_Witness ==
    /\ \E o \in orders : o.case_id = 1 /\ o.pdf_downloaded
    /\ \E p \in Procs : req[p].pc = "done" /\ req[p].resp.kind = "fresh"
    /\ Cardinality({ o \in orders : o.case_id = 1 }) = 2

\* C29: the ledger is append-only with one attempt per resolution request:
\* each resolution request that passes validation, through search or through
\* api_search, adds exactly one SearchQuery row, no row is ever deleted, and a
\* request never modifies a row other than its own.
C29_OneAttemptPerRequest ==
    [][ /\ Len(ledger') = Len(ledger)
             + Cardinality({ p \in Procs : req[p].qid = 0 /\ req'[p].qid # 0 })
             + (IF web.scrapeCalls = 0 /\ web'.scrapeCalls = 1 THEN 1 ELSE 0)
        /\ \A i \in 1..Len(ledger) :
             \/ ledger'[i] = ledger[i]
             \/ \E p \in Procs : req[p].qid = i /\ req'[p] # req[p] ]_vars

\* The messages the views return for an outcome other than a validation
\* failure.
FixedMessages ==
    { "Unable to connect to court website. Please try again later.",
      "Request timed out. The court website may be busy. Please try again.",
      "Database error occurred. Please try again.",
      "An unexpected error occurred while processing your request.",
      "No case found with the provided details. Please verify the case information.",
      "No PDF URL available", "Failed to download PDF", "PDF not available",
      "Download failed", "Missing required fields", "No data found" }

\* C30: for every terminal outcome other than a validation failure, the
\* message shown to the caller is one of a fixed set of human-readable
\* messages and never the text of the underlying exception.
C30_MessagesAreFixed ==
    /\ \A p \in Procs :
         req[p].resp.kind \in {"error", "no_data"} =>
           req[p].resp.msg \in FixedMessages
    /\ \A d \in Downloaders :
         dl[d].pc = "done" /\ dl[d].status # 200 => dl[d].msg \in FixedMessages
    /\ web.pc = "done" /\ web.status # 200 => web.msg \in FixedMessages

\* C32 as stated: a failure is classified into exactly one of connectivity,
\* timeout and generic, and no category outside these three is produced.
C32_ThreeCategories ==
    page.pc = "shown" =>
      page.msg \in { "Unable to connect to court website. Please try again later.",
                     "Request timed out. The court website may be busy. Please try again.",
                     "An unexpected error occurred while processing your request." }

\* C32: a failure is classified into exactly one of the categories
\* connectivity, timeout, database and generic: the classification is a total
\* function of the error text, a text mentioning both a connection problem
\* and a timeout is classified as connectivity, one mentioning a timeout and
\* the database as timeout, and no other category is produced.
C32_FourCategories ==
    page.pc = "shown" =>
      /\ page.msg \in { "Unable to connect to court website. Please try again later.",
                        "Request timed out. The court website may be busy. Please try again.",
                        "Database error occurred. Please try again.",
                        "An unexpected error occurred while processing your request." }
      /\ TextMentions(page.text, "connection") =>
           page.msg = "Unable to connect to court website. Please try again later."
      /\ ~TextMentions(page.text, "connection") /\ TextMentions(page.text, "timeout") =>
           page.msg = "Request timed out. The court website may be busy. Please try again."
      /\ (\A k \in {"connection", "timeout"} : ~TextMentions(page.text, k))
           /\ TextMentions(page.text, "database") =>
           page.msg = "Database error occurred. Please try again."
      /\ (\A k \in {"connection", "timeout", "database"} : ~TextMentions(page.text, k)) =>
           page.msg = "An unexpected error occurred while processing your request."

C32_Witness ==
    /\ page.pc = "shown"
    /\ TextMentions(page.text, "connection") /\ TextMentions(page.text, "timeout")
    /\ page.msg = "Unable to connect to court website. Please try again later."

\* C31: every resolution request eventually returns a response to the caller
\* with its ledger attempt in a terminal status, provided each call of the
\* source adapter and of the summarizer returns or raises.
C31_EventuallyAnswered ==
    \A p \in Procs :
      (req[p].qid # 0) ~> (Finished(p) /\ Attempt(p).status \in Terminal)

\* Every resolution request eventually returns a response to the caller.
C31_EventuallyReturns ==
    \A p \in Procs : (req[p].qid # 0) ~> Finished(p)

\* C33: in every committed state an attempt with status in_progress, no_data
\* or failed has no linked case, and an attempt with status cache_hit or
\* success references an existing CourtCase whose fingerprint equals the
\* attempt's.
C33_CaseLinks ==
    \A i \in 1..Len(ledger) :
      /\ ledger[i].status \in {"in_progress", "no_data", "failed"} =>
           ledger[i].case_id = 0
      /\ ledger[i].status \in {"cache_hit", "success"} =>
           \E c \in cases : c.id = ledger[i].case_id /\ c.fp = ledger[i].fp

\* C34: on a successful fresh resolution the documents persisted for the new
\* case are exactly the descriptors of the payload's document list, one
\* CaseOrder per descriptor, each with the id of the new case; a payload with
\* an empty document list yields a case with no document and still ends
\* success.
C34_DocumentsAreThePayloads ==
    \A p \in Procs :
      req[p].pc = "render" /\ req[p].resp.kind = "fresh" =>
        LET os == req[p].payload.orders
            docs == { o \in orders : o.case_id = req[p].newCase }
        IN  /\ Attempt(p).status = "success"
            /\ \E c \in cases : c.id = req[p].newCase
            /\ Cardinality(docs) = Len(os)
            /\ { o.idx : o \in docs } = 1..Len(os)
            /\ \A o \in docs :
                 /\ os[o.idx].shape = "dict"
                 /\ o.pdf_url = os[o.idx].url
                 /\ o.order_date = OrderDate(os[o.idx])

C34_Witness ==
    \E p, q \in Procs :
      /\ req[p].pc = "render" /\ req[p].resp.kind = "fresh"
      /\ Len(req[p].payload.orders) = 2
      /\ Cardinality({ o \in orders : o.case_id = req[p].newCase }) = 2
      /\ Finished(q) /\ Attempt(q).status = "success"
      /\ \E c \in cases : c.id = Attempt(q).case_id /\ c.parsed_orders = 0
                          /\ OrdersOfCase(c) = {}

C35_EveryCallResolves ==
    web.pc = "done" /\ web.fp # NoFingerprint =>
      /\ web.scrapeCalls = 1
      /\ web.status = 200 => web.sumCalls = 1

\* C35: api_search leaves the Case Store and the Query Ledger unchanged for
\* every input: it looks up no stored case and writes no CourtCase, CaseOrder
\* or SearchQuery row, so each of two api_search calls for one fingerprint
\* invokes the source adapter and the summarizer, also when the store holds
\* the case.
C35_ApiSearchIsStateless ==
    /\ []C35_EveryCallResolves
    /\ [][ web' # web =>
             ledger' = ledger /\ cases' = cases /\ orders' = orders ]_vars

C35_Witness ==
    /\ web.pc = "done" /\ web.served = 1 /\ web.status = 200
    /\ web.fp = StoredFingerprint /\ CasesOf(web.fp) # {}
    /\ web.prev = <<web.fp, 1, 1>>
    /\ web.scrapeCalls = 1 /\ web.sumCalls = 1
    /\ Len(ledger) = 1

\* C36: with the shipped source adapter, scrape_case_data returns a non-empty
\* case-data mapping with a non-empty document list for every validated query
\* and never signals not-found; hence no search request reaches the no_data
\* status, and every first resolution of a valid fingerprint ends success or
\* failed.
C36_ShippedAdapterAlwaysReturns ==
    /\ \A p \in Procs :
         req[p].scrapeCalls > 0 =>
           /\ req[p].fetched = "data"
           /\ req[p].pc = "summarize" => req[p].payload.orders # <<>>
    /\ \A i \in 1..Len(ledger) : ledger[i].status # "no_data"
    /\ \A p \in Procs :
         Finished(p) /\ req[p].existing = 0 =>
           Attempt(p).status \in {"success", "failed"}

\* Two forms differ in leading and trailing white space only.
SameButWhitespace(f, g) ==
    /\ Strip(f.case_type) = Strip(g.case_type)
    /\ Strip(f.case_number) = Strip(g.case_number)
    /\ Strip(f.filing_year) = Strip(g.filing_year)
    /\ Strip(f.court_name) = Strip(g.court_name)

NoEdgeSpace(t) == t = <<>> \/ (t[1] # " " /\ t[Len(t)] # " ")

C38_NoRefetch ==
    [][ \A d \in Downloaders :
          /\ dl[d].pc = "idle" /\ dl'[d].pc # "idle"
          /\ \E o \in OrderOf(dl'[d].doc) : o.pdf_downloaded
          => /\ dl'[d].pc = "done" /\ dl'[d].cached
             /\ orders' = orders
             /\ \/ /\ dl'[d].status = 200
                   /\ \E o \in OrderOf(dl'[d].doc) : dl'[d].file = o.local_pdf_path
                \/ /\ dl'[d].status = 404
                   /\ dl'[d].msg = "PDF not available" ]_vars

C38_Witness ==
    \E d, e \in Downloaders :
      /\ d # e /\ dl[d].doc = dl[e].doc
      /\ dl[e].pc = "done" /\ ~dl[e].cached /\ dl[e].status = 200
      /\ dl[d].pc = "done" /\ dl[d].cached /\ dl[d].status = 404
      /\ dl[d].msg = "PDF not available"
      /\ \E o \in OrderOf(dl[d].doc) : o.pdf_downloaded /\ o.local_pdf_path # ""

\* C39: every CourtCase persisted by search has a non-empty ai_summary:
\* summarize_court_data never returns an empty string, whether the model
\* answered, answered nothing, raised, or was not there.
C39_SummaryNeverEmpty ==
    /\ \A c \in cases : c.ai_summary # ""
    /\ \A p \in Procs : req[p].sumCalls > 0 => req[p].summary # ""

C39_Witness ==
    /\ \E c \in cases : c.ai_summary = FallbackSummaryText
    /\ \E p \in Procs :
         /\ req[p].pc = "save" /\ req[p].model = "empty"
         /\ req[p].summary = FallbackSummaryText

====
